---- MODULE Spec2Model ----
(***************************************************************************)
(* Book API of advanced-api-project: the Author/Book store, the five Book  *)
(* endpoints (list, retrieve, create, update, delete), the serializer's    *)
(* validation and the list endpoint's filter -> search -> order pipeline.  *)
(*                                                                         *)
(* Text is modelled as a sequence of one-character strings, so that        *)
(* trimming, splitting, case folding, substring search and collation are   *)
(* computed and not assumed.  An optional value (a request field or query  *)
(* parameter that may be missing) is a sequence of length 0 or 1.          *)
(***************************************************************************)
EXTENDS Integers, Sequences, FiniteSets, TLC

VARIABLES
  authors,       \* Author table: id -> name
  books,         \* Book table: id -> [title, publication_year, author]
  nextAuthorId,  \* the id the next Author row gets (ids are not reused)
  nextBookId,    \* the id the next Book row gets (ids are not reused)
  current_year,  \* datetime.date.today().year
  req,           \* the request being answered, Idle between requests
  resp           \* the response to req

vars == <<authors, books, nextAuthorId, nextBookId, current_year, req, resp>>
store == <<authors, books, nextAuthorId, nextBookId>>

-----------------------------------------------------------------------------
(* Bounds of the model *)

\* Author rows ever inserted
MaxAuthors == 2
\* Book rows ever inserted
MaxBooks == 2
\* the year the host clock shows at start
StartYear == 2
\* new years the host clock passes
MaxTicks == 1

AuthorIds == 1..MaxAuthors
BookIds == 1..MaxBooks
PayloadYears == (StartYear - 1)..(StartYear + MaxTicks)

\* CharField(max_length=200) of Book.title
TitleMaxLength == 200

-----------------------------------------------------------------------------
(* Text *)

None == <<>>
Some(x) == <<x>>

\* code point of a character (binary collation, Python's str ordering)
Code(c) ==
  CASE c = " " -> 32
    [] c = "," -> 44
    [] c = "A" -> 65
    [] c = "B" -> 66
    [] c = "a" -> 97
    [] c = "b" -> 98

\* case folding of one character, as LIKE / icontains folds it
LowerChar(c) ==
  CASE c = "A" -> "a"
    [] c = "B" -> "b"
    [] OTHER -> c

Lower(s) == [i \in 1..Len(s) |-> LowerChar(s[i])]

\* str.strip(): leading and trailing white space removed
RECURSIVE LStrip(_)
LStrip(s) == IF s # <<>> /\ Head(s) = " " THEN LStrip(Tail(s)) ELSE s

RECURSIVE RStrip(_)
RStrip(s) ==
  IF s # <<>> /\ s[Len(s)] = " " THEN RStrip(SubSeq(s, 1, Len(s) - 1)) ELSE s

Strip(s) == RStrip(LStrip(s))

\* needle occurs in hay as a contiguous run of characters
Contains(hay, needle) ==
  \E i \in 0..(Len(hay) - Len(needle)) : SubSeq(hay, i + 1, i + Len(needle)) = needle

\* field__contains=term: the match made case-sensitive
Contains_CaseSensitive(hay, needle) == Contains(hay, needle)

\* field__icontains=term
IContains(hay, needle) == Contains(Lower(hay), Lower(needle))

\* a < b in code point order
RECURSIVE StrLess(_, _)
StrLess(a, b) ==
  IF b = <<>> THEN FALSE
  ELSE IF a = <<>> THEN TRUE
  ELSE IF Code(Head(a)) # Code(Head(b)) THEN Code(Head(a)) < Code(Head(b))
  ELSE StrLess(Tail(a), Tail(b))

-----------------------------------------------------------------------------
(* Values the requests are drawn from *)

AuthorNames == { <<"A">>, <<"B">> }

\* titles as submitted: blank, padded with a space, plain
TitleInputs == { <<>>, <<" ", "b">>, <<"B">> }

Restrict(f, S) == [x \in S |-> f[x]]

\* rows of the Book table that reference author a
BooksOf(a) == { b \in DOMAIN books : books[b].author = a }

-----------------------------------------------------------------------------
(* Access control *)

SAFE_METHODS == { "GET", "HEAD", "OPTIONS" }

\* rest_framework.permissions.IsAuthenticatedOrReadOnly.has_permission
IsAuthenticatedOrReadOnly(method, auth) == method \in SAFE_METHODS \/ auth

\* a write view left open to every caller
AllowAny(method, auth) == TRUE

\* rest_framework.permissions.IsAuthenticated.has_permission
IsAuthenticated(method, auth) == auth

-----------------------------------------------------------------------------
(* Serialization and validation: BookSerializer *)

\* BookSerializer.to_representation: fields = id, title, publication_year, author
SerializeBook(id) ==
  [id |-> id, title |-> books[id].title,
   publication_year |-> books[id].publication_year, author |-> books[id].author]

\* the year check off by one: next year passes
validate_publication_year_NextYear(value) == value <= current_year + 1

\* validate_publication_year raises when the value is after today's year
validate_publication_year(value) == value <= current_year

\* a request body: each of the three writable fields given or missing
Payloads ==
  [title : {None} \cup {Some(t) : t \in TitleInputs},
   publication_year : {None} \cup {Some(y) : y \in PayloadYears},
   author : {None} \cup {Some(a) : a \in AuthorIds}]

\* title after CharField.to_internal_value (trim_whitespace)
CleanTitle(p) == Strip(p.title[1])

\* names of the fields whose validation fails; all fields are run, errors collected.
\* partial (PATCH) skips the fields the body leaves out, PUT and POST require them.
FieldErrors(p, partial) ==
  { f \in {"title"} :
      IF p.title = None THEN ~partial
      ELSE CleanTitle(p) = <<>> \/ Len(CleanTitle(p)) > TitleMaxLength }
  \cup
  { f \in {"publication_year"} :
      IF p.publication_year = None THEN ~partial
      ELSE ~validate_publication_year(p.publication_year[1]) }
  \cup
  { f \in {"author"} :
      IF p.author = None THEN ~partial
      ELSE p.author[1] \notin DOMAIN authors }

\* validated_data laid over the instance's current values
Merged(old, p) ==
  [title |-> IF p.title = None THEN old.title ELSE CleanTitle(p),
   publication_year |->
     IF p.publication_year = None THEN old.publication_year ELSE p.publication_year[1],
   author |-> IF p.author = None THEN old.author ELSE p.author[1]]

-----------------------------------------------------------------------------
(* Requests and responses *)

NoPayload == [title |-> None, publication_year |-> None, author |-> None]
NoQuery ==
  [title |-> None, author |-> None, publication_year |-> None,
   search |-> None, ordering |-> None]

Request(op, method, auth, id, p, q) ==
  [op |-> op, method |-> method, auth |-> auth, id |-> id, payload |-> p, query |-> q]

Response(status, errors, body) == [status |-> status, errors |-> errors, body |-> body]

HTTP_200_OK == 200
HTTP_201_CREATED == 201
HTTP_204_NO_CONTENT == 204
HTTP_400_BAD_REQUEST == 400
HTTP_401_UNAUTHORIZED == 401
HTTP_404_NOT_FOUND == 404

\* no request is being served
Idle == Request("none", "GET", FALSE, 0, NoPayload, NoQuery)
NoResponse == Response(0, {}, <<>>)

\* the answer to a request the permission check turned away
NotAuthenticated == Response(HTTP_401_UNAUTHORIZED, {}, <<>>)
NotFound == Response(HTTP_404_NOT_FOUND, {}, <<>>)
ValidationFailed(errs) == Response(HTTP_400_BAD_REQUEST, errs, <<>>)

-----------------------------------------------------------------------------
(* The store outside the API: Author rows, the host clock *)

Init ==
  /\ authors = <<>>
  /\ books = <<>>
  /\ nextAuthorId = 1
  /\ nextBookId = 1
  /\ current_year = StartYear
  /\ req = Idle
  /\ resp = NoResponse

\* Author.objects.create(name=...)
AuthorCreate(name) ==
  /\ nextAuthorId <= MaxAuthors
  /\ authors' = [a \in DOMAIN authors \cup {nextAuthorId} |->
                   IF a = nextAuthorId THEN name ELSE authors[a]]
  /\ nextAuthorId' = nextAuthorId + 1
  /\ UNCHANGED <<books, nextBookId, current_year, req, resp>>

\* the Author row removed, its Books left behind (on_delete=DO_NOTHING)
AuthorDelete_NoCascade(a) ==
  /\ a \in DOMAIN authors
  /\ authors' = Restrict(authors, DOMAIN authors \ {a})
  /\ UNCHANGED <<books, nextAuthorId, nextBookId, current_year, req, resp>>

\* author.delete(): on_delete=CASCADE removes the Books that reference the row
AuthorDelete(a) ==
  /\ a \in DOMAIN authors
  /\ authors' = Restrict(authors, DOMAIN authors \ {a})
  /\ books' = Restrict(books, DOMAIN books \ BooksOf(a))
  /\ UNCHANGED <<nextAuthorId, nextBookId, current_year, req, resp>>

\* datetime.date.today().year moves on
NewYear ==
  /\ current_year < StartYear + MaxTicks
  /\ current_year' = current_year + 1
  /\ UNCHANGED <<store, req, resp>>

-----------------------------------------------------------------------------
(* Endpoints that address one Book *)

\* BookDetailView: GET books/<pk>/
BookDetailView(auth, id) ==
  /\ req' = Request("retrieve", "GET", auth, id, NoPayload, NoQuery)
  /\ resp' = IF ~IsAuthenticatedOrReadOnly("GET", auth) THEN NotAuthenticated
             ELSE IF id \notin DOMAIN books THEN NotFound
             ELSE Response(HTTP_200_OK, {}, <<SerializeBook(id)>>)
  /\ UNCHANGED <<store, current_year>>

\* BookCreateView: POST books/create/
BookCreateView(auth, p) ==
  /\ nextBookId <= MaxBooks
  /\ req' = Request("create", "POST", auth, 0, p, NoQuery)
  /\ IF ~IsAuthenticated("POST", auth)
       THEN resp' = NotAuthenticated /\ UNCHANGED <<books, nextBookId>>
     ELSE IF FieldErrors(p, FALSE) # {}
       THEN resp' = ValidationFailed(FieldErrors(p, FALSE)) /\ UNCHANGED <<books, nextBookId>>
     ELSE
       /\ books' = [b \in DOMAIN books \cup {nextBookId} |->
                      IF b = nextBookId THEN Merged(NoPayload, p) ELSE books[b]]
       /\ nextBookId' = nextBookId + 1
       /\ resp' = Response(HTTP_201_CREATED, {},
                           <<[id |-> nextBookId] @@ Merged(NoPayload, p)>>)
  /\ UNCHANGED <<authors, nextAuthorId, current_year>>

\* BookUpdateView: PUT (partial = FALSE) or PATCH (partial = TRUE) books/<pk>/update/
BookUpdateView(auth, id, p, partial) ==
  /\ req' = Request("update", IF partial THEN "PATCH" ELSE "PUT", auth, id, p, NoQuery)
  /\ IF ~IsAuthenticated(IF partial THEN "PATCH" ELSE "PUT", auth)
       THEN resp' = NotAuthenticated /\ UNCHANGED books
     ELSE IF id \notin DOMAIN books
       THEN resp' = NotFound /\ UNCHANGED books
     ELSE IF FieldErrors(p, partial) # {}
       THEN resp' = ValidationFailed(FieldErrors(p, partial)) /\ UNCHANGED books
     ELSE
       /\ books' = [books EXCEPT ![id] = Merged(books[id], p)]
       /\ resp' = Response(HTTP_200_OK, {}, <<[id |-> id] @@ Merged(books[id], p)>>)
  /\ UNCHANGED <<authors, nextAuthorId, nextBookId, current_year>>

\* the row removed before the permission check and the lookup are answered
BookDeleteView_DeleteFirst(auth, id) ==
  /\ req' = Request("delete", "DELETE", auth, id, NoPayload, NoQuery)
  /\ books' = Restrict(books, DOMAIN books \ {id})
  /\ resp' = IF ~IsAuthenticated("DELETE", auth) THEN NotAuthenticated
             ELSE IF id \notin DOMAIN books THEN NotFound
             ELSE Response(HTTP_204_NO_CONTENT, {}, <<>>)
  /\ UNCHANGED <<authors, nextAuthorId, nextBookId, current_year>>

\* 204 answered, the row left in the table
BookDeleteView_KeepsRow(auth, id) ==
  /\ req' = Request("delete", "DELETE", auth, id, NoPayload, NoQuery)
  /\ resp' = IF ~IsAuthenticated("DELETE", auth) THEN NotAuthenticated
             ELSE IF id \notin DOMAIN books THEN NotFound
             ELSE Response(HTTP_204_NO_CONTENT, {}, <<>>)
  /\ UNCHANGED <<store, current_year>>

\* BookDeleteView: DELETE books/<pk>/delete/
BookDeleteView(auth, id) ==
  /\ req' = Request("delete", "DELETE", auth, id, NoPayload, NoQuery)
  /\ IF ~IsAuthenticated("DELETE", auth)
       THEN resp' = NotAuthenticated /\ UNCHANGED books
     ELSE IF id \notin DOMAIN books
       THEN resp' = NotFound /\ UNCHANGED books
     ELSE
       /\ books' = Restrict(books, DOMAIN books \ {id})
       /\ resp' = Response(HTTP_204_NO_CONTENT, {}, <<>>)
  /\ UNCHANGED <<authors, nextAuthorId, nextBookId, current_year>>

\* the response goes out to the client; the next request can be served
SendResponse ==
  /\ req # Idle
  /\ req' = Idle
  /\ resp' = NoResponse
  /\ UNCHANGED <<store, current_year>>

-----------------------------------------------------------------------------
(* The list endpoint: DjangoFilterBackend, then SearchFilter, then          *)
(* OrderingFilter, each applied to the rows the one before it kept.         *)

filterset_fields == { "title", "author", "publication_year" }
search_fields == <<"title", "author__name">>
ordering_fields == { "title", "publication_year" }
\* BookListView.ordering: the order used when the request names none
ordering == << [desc |-> FALSE, field |-> "title"] >>

\* one field of the ordering parameter: "-title" is desc = TRUE, field = "title"
Asc(f) == [desc |-> FALSE, field |-> f]
Desc(f) == [desc |-> TRUE, field |-> f]

\* the filter form: a ModelChoiceField accepts only the key of an existing Author
FilterErrors(q) ==
  { f \in {"author"} : q.author # None /\ q.author[1] \notin DOMAIN authors }

\* the filter form's CharField strips the value; an empty value sets no filter
TitleFilter(q) == IF q.title = None THEN <<>> ELSE Strip(q.title[1])

\* DjangoFilterBackend.filter_queryset: field__exact for every non-empty value
DjangoFilterBackend(rows, q) ==
  LET title == TitleFilter(q) IN
  { b \in rows :
      /\ title = <<>> \/ books[b].title = title
      /\ q.author = None \/ books[b].author = q.author[1]
      /\ q.publication_year = None \/ books[b].publication_year = q.publication_year[1] }

Separators == { " ", "," }

\* SearchFilter.get_search_terms: commas become spaces, the value is split on
\* white space; cur is the term being read
RECURSIVE SplitTerms(_, _)
SplitTerms(s, cur) ==
  IF s = <<>> THEN (IF cur = <<>> THEN <<>> ELSE <<cur>>)
  ELSE IF Head(s) \in Separators
    THEN (IF cur = <<>> THEN <<>> ELSE <<cur>>) \o SplitTerms(Tail(s), <<>>)
  ELSE SplitTerms(Tail(s), Append(cur, Head(s)))

get_search_terms(q) == IF q.search = None THEN <<>> ELSE SplitTerms(q.search[1], <<>>)

\* the text of one search field of a row: title, or the name of the row's Author
SearchText(b, f) == IF f = "title" THEN books[b].title ELSE authors[books[b].author]

\* a search that reads the whole Book table instead of the rows handed to it
SearchFilter_FullTable(rows, q) ==
  LET terms == get_search_terms(q) IN
  { b \in DOMAIN books :
      \A k \in 1..Len(terms) :
        \E f \in 1..Len(search_fields) :
          IContains(SearchText(b, search_fields[f]), terms[k]) }

\* SearchFilter.filter_queryset: every term is in at least one search field
SearchFilter(rows, q) ==
  LET terms == get_search_terms(q) IN
  { b \in rows :
      \A k \in 1..Len(terms) :
        \E f \in 1..Len(search_fields) :
          IContains(SearchText(b, search_fields[f]), terms[k]) }

\* OrderingFilter.remove_invalid_fields
remove_invalid_fields(fields) == SelectSeq(fields, LAMBDA t : t.field \in ordering_fields)

\* OrderingFilter.get_ordering: the valid fields of the parameter, or the default
get_ordering(q) ==
  LET fields == IF q.ordering = None THEN <<>> ELSE remove_invalid_fields(q.ordering[1]) IN
  IF fields # <<>> THEN fields ELSE ordering

\* row x sorts strictly before row y on one field
FieldLess(f, x, y) ==
  IF f = "title" THEN StrLess(books[x].title, books[y].title)
  ELSE books[x].publication_year < books[y].publication_year

\* the leading "-" of a field dropped: every field ascending
TermLess_AscendingOnly(t, x, y) == FieldLess(t.field, x, y)

TermLess(t, x, y) == IF t.desc THEN FieldLess(t.field, y, x) ELSE FieldLess(t.field, x, y)

\* ORDER BY ord: x sorts strictly before y
RECURSIVE KeyLess(_, _, _)
KeyLess(ord, x, y) ==
  IF ord = <<>> THEN FALSE
  ELSE IF TermLess(Head(ord), x, y) THEN TRUE
  ELSE IF TermLess(Head(ord), y, x) THEN FALSE
  ELSE KeyLess(Tail(ord), x, y)

\* the sequences queryset.order_by(*ord) can yield: the rows, each once, no row
\* before one that sorts strictly before it.  The query names no further key,
\* so the database is free in the order of rows that are equal on ord.
order_by(rows, ord) ==
  LET n == Cardinality(rows) IN
  { s \in [1..n -> rows] :
      /\ \A i, j \in 1..n : i # j => s[i] # s[j]
      /\ \A i, j \in 1..n : i < j => ~KeyLess(ord, s[j], s[i]) }

\* OrderingFilter.filter_queryset
OrderingFilter(rows, q) == order_by(rows, get_ordering(q))

\* author.books.all(): the Books whose author is a.  Book has no Meta.ordering and
\* the related manager adds none, so the query has no ORDER BY.
related_books(a) == order_by(BooksOf(a), <<>>)

\* AuthorSerializer(author).data: fields = id, name, books, with
\* books = BookSerializer(many=True, read_only=True).  No view of the repository
\* serves it, so the answer carries no HTTP status.
AuthorSerializer(a) ==
  /\ a \in DOMAIN authors
  /\ req' = Request("author", "GET", FALSE, a, NoPayload, NoQuery)
  /\ \E rows \in related_books(a) :
       resp' = Response(0, {},
                 <<[id |-> a, name |-> authors[a],
                    books |-> [i \in 1..Len(rows) |-> SerializeBook(rows[i])]]>>)
  /\ UNCHANGED <<store, current_year>>

\* BookListView: GET books/
BookListView(auth, q) ==
  /\ req' = Request("list", "GET", auth, 0, NoPayload, q)
  /\ IF ~IsAuthenticatedOrReadOnly("GET", auth)
       THEN resp' = NotAuthenticated
     ELSE IF FilterErrors(q) # {}
       THEN resp' = ValidationFailed(FilterErrors(q))
     ELSE \E rows \in OrderingFilter(SearchFilter(DjangoFilterBackend(DOMAIN books, q), q), q) :
            resp' = Response(HTTP_200_OK, {}, [i \in 1..Len(rows) |-> SerializeBook(rows[i])])
  /\ UNCHANGED <<store, current_year>>

\* query strings of the list endpoint
TitleParams == { <<>>, <<"b">>, <<"B", " ">> }
SearchParams == { <<"B">>, <<"a", " ", "b">>, <<"b", ",", "A">> }
OrderingParams ==
  { <<>>, <<Asc("title")>>, <<Desc("title")>>, <<Asc("publication_year")>>,
    <<Desc("publication_year")>>, <<Desc("publication_year"), Asc("title")>>,
    <<Asc("author")>>, <<Asc("title"), Desc("id")>> }

Queries ==
  [title : {None} \cup {Some(t) : t \in TitleParams},
   author : {None} \cup {Some(a) : a \in AuthorIds},
   publication_year : {None} \cup {Some(y) : y \in (StartYear - 1)..StartYear},
   search : {None} \cup {Some(t) : t \in SearchParams},
   ordering : {None} \cup {Some(o) : o \in OrderingParams}]

\* the list requests of the store's life: no parameter, or one author filter
BasicQueries == { q \in Queries : q = [NoQuery EXCEPT !.author = q.author] }

-----------------------------------------------------------------------------
(* The list endpoint over the stores of up to MaxBooks Books *)

StoredTitles == { <<"b">>, <<"B">>, <<"a", " ", "b">> }
StoredAuthors == [a \in AuthorIds |-> IF a = 1 THEN <<"A">> ELSE <<"B">>]

InitQuery ==
  /\ \E S \in SUBSET AuthorIds : authors = Restrict(StoredAuthors, S)
  /\ \E D \in SUBSET BookIds :
       books \in [D -> [title : StoredTitles,
                        publication_year : (StartYear - 1)..StartYear,
                        author : DOMAIN authors]]
  /\ nextAuthorId = MaxAuthors + 1
  /\ nextBookId = MaxBooks + 1
  /\ current_year = StartYear
  /\ req = Idle
  /\ resp = NoResponse

\* one request is served at a time: the next is taken up when the response is out
NextQuery ==
  \/ req = Idle /\ \E auth \in BOOLEAN, q \in Queries : BookListView(auth, q)
  \/ SendResponse

SpecQuery == InitQuery /\ [][NextQuery]_vars

-----------------------------------------------------------------------------

Next ==
  \/ req = Idle /\ \E name \in AuthorNames : AuthorCreate(name)
  \/ req = Idle /\ \E a \in AuthorIds : AuthorDelete(a)
  \/ req = Idle /\ NewYear
  \/ req = Idle /\ \E auth \in BOOLEAN, q \in BasicQueries : BookListView(auth, q)
  \/ req = Idle /\ \E auth \in BOOLEAN, id \in BookIds : BookDetailView(auth, id)
  \/ req = Idle /\ \E auth \in BOOLEAN, p \in Payloads : BookCreateView(auth, p)
  \/ req = Idle /\ \E auth \in BOOLEAN, id \in BookIds, p \in Payloads, partial \in BOOLEAN :
                     BookUpdateView(auth, id, p, partial)
  \/ req = Idle /\ \E auth \in BOOLEAN, id \in BookIds : BookDeleteView(auth, id)
  \/ req = Idle /\ \E a \in AuthorIds : AuthorSerializer(a)
  \/ SendResponse

Spec == Init /\ [][Next]_vars

-----------------------------------------------------------------------------
(* Properties of the endpoints over the life of the store (Spec) *)

WriteOps == { "create", "update", "delete" }
Served == req # Idle

\* C1: a request is answered 401 (AuthenticationRequired) exactly when it is a
\* write (create, update, delete) from an anonymous caller, whatever its payload
\* and identifier; list and retrieve are never answered 401.
C1_AuthRequiredIffAnonymousWrite ==
  Served =>
    (resp.status = HTTP_401_UNAUTHORIZED <=> (req.op \in WriteOps /\ ~req.auth))

\* an anonymous update of an id that is not in the store, with a blank title,
\* is answered 401 and not 404 or 400
C1_Witness ==
  /\ req.op = "update" /\ ~req.auth
  /\ req.id \notin DOMAIN books
  /\ req.payload.title = Some(<<>>)
  /\ resp.status = HTTP_401_UNAUTHORIZED

\* C2: every Book in the store has publication_year <= the current year, and a
\* create or update that gets as far as validation with a publication_year after
\* the current year is answered 400 with a field error on publication_year.
C2_NoFutureYear ==
  /\ \A b \in DOMAIN books : books[b].publication_year <= current_year
  /\ ( /\ req.op \in {"create", "update"}
       /\ req.payload.publication_year # None
       /\ req.payload.publication_year[1] > current_year
       /\ resp.status \notin {HTTP_401_UNAUTHORIZED, HTTP_404_NOT_FOUND} )
     => ( /\ resp.status = HTTP_400_BAD_REQUEST
          /\ "publication_year" \in resp.errors )

\* an authenticated partial update of a stored Book to next year is turned down
\* on publication_year alone, and the Book keeps a year that is not in the future
C2_Witness ==
  /\ req.op = "update" /\ req.method = "PATCH" /\ req.auth
  /\ req.id \in DOMAIN books
  /\ req.payload.publication_year = Some(current_year + 1)
  /\ resp.status = HTTP_400_BAD_REQUEST
  /\ resp.errors = {"publication_year"}
  /\ books[req.id].publication_year <= current_year

\* C3: a create, update or delete answered 401, 404 or 400 leaves the store as
\* it was before the request.
C3_FailureLeavesStore ==
  [][ ( /\ req'.op \in WriteOps
        /\ resp'.status \in {HTTP_401_UNAUTHORIZED, HTTP_404_NOT_FOUND, HTTP_400_BAD_REQUEST} )
      => store' = store ]_vars

\* an authenticated create for next year has failed validation and the store,
\* empty before, holds no Book and has assigned no identifier
C3_Witness ==
  /\ req.op = "create" /\ req.auth
  /\ req.payload.publication_year = Some(current_year + 1)
  /\ req.payload.title # None /\ req.payload.author # None
  /\ resp.status = HTTP_400_BAD_REQUEST
  /\ books = <<>> /\ nextBookId = 1

\* C4: an authenticated delete of a stored Book is answered 204 and removes that
\* Book and no other; a Book that is not in the store stays out of it through
\* every step that is not a create, and in that time a retrieve, or an update or
\* delete that passes the permission check, of its id is answered 404 and no list
\* result holds it.
C4_DeletedStaysGone ==
  [][ /\ (req'.op = "delete" /\ req'.auth /\ req'.id \in DOMAIN books)
         => resp'.status = HTTP_204_NO_CONTENT
      /\ (req'.op = "delete" /\ resp'.status = HTTP_204_NO_CONTENT)
         => ( /\ req'.id \in DOMAIN books
              /\ books' = Restrict(books, DOMAIN books \ {req'.id}) )
      /\ \A i \in BookIds :
           (i \notin DOMAIN books /\ req'.op # "create")
           => ( /\ i \notin DOMAIN books'
                /\ ( /\ req'.op \in {"retrieve", "update", "delete"}
                     /\ req'.id = i
                     /\ resp'.status # HTTP_401_UNAUTHORIZED )
                   => resp'.status = HTTP_404_NOT_FOUND
                /\ req'.op = "list"
                   => \A k \in 1..Len(resp'.body) : resp'.body[k].id # i )
    ]_vars

\* a delete has been answered 204: its Book is gone, the other Book is still there
C4_Witness ==
  /\ req.op = "delete" /\ req.auth
  /\ resp.status = HTTP_204_NO_CONTENT
  /\ req.id \notin DOMAIN books
  /\ req.id < nextBookId
  /\ DOMAIN books # {}

\* C10: every Book's author is a stored Author, and a create or update that gets
\* as far as validation with an author id that is not stored is answered 400 with
\* a field error on author.
C10_AuthorResolves ==
  /\ \A b \in DOMAIN books : books[b].author \in DOMAIN authors
  /\ ( /\ req.op \in {"create", "update"}
       /\ req.payload.author # None
       /\ req.payload.author[1] \notin DOMAIN authors
       /\ resp.status \notin {HTTP_401_UNAUTHORIZED, HTTP_404_NOT_FOUND} )
     => ( /\ resp.status = HTTP_400_BAD_REQUEST
          /\ "author" \in resp.errors )

\* an Author that had been stored is gone, a Book of the other Author remains,
\* and an update that moves this Book to the deleted Author is turned down
C10_Witness ==
  /\ req.op = "update" /\ req.auth
  /\ req.id \in DOMAIN books
  /\ req.payload.author # None
  /\ req.payload.author[1] < nextAuthorId
  /\ req.payload.author[1] \notin DOMAIN authors
  /\ resp.status = HTTP_400_BAD_REQUEST
  /\ "author" \in resp.errors

-----------------------------------------------------------------------------
(* Properties of the list endpoint (SpecQuery) *)

ListOK == req.op = "list" /\ resp.status = HTTP_200_OK
BodyIds == { resp.body[k].id : k \in 1..Len(resp.body) }

\* C5: for every combination of the filter parameters title, author and
\* publication_year (no search), the list request is answered with a result that
\* holds exactly the Books whose field equals the given value, for every
\* parameter that is present.
C5_FilterExactForEveryParameter ==
  (req.op = "list" /\ req.query.search = None) =>
    /\ resp.status = HTTP_200_OK
    /\ BodyIds =
         { b \in DOMAIN books :
             /\ req.query.title # None => books[b].title = req.query.title[1]
             /\ req.query.author # None => books[b].author = req.query.author[1]
             /\ req.query.publication_year # None
                  => books[b].publication_year = req.query.publication_year[1] }

\* t is one of the words of v: a longest run of v without a space or a comma
IsWordOf(t, v) ==
  \E i, j \in 1..Len(v) :
    /\ i <= j
    /\ t = SubSeq(v, i, j)
    /\ \A k \in i..j : v[k] \notin {" ", ","}
    /\ i = 1 \/ v[i - 1] \in {" ", ","}
    /\ j = Len(v) \/ v[j + 1] \in {" ", ","}

\* the words of v
Words(v) == { t \in { SubSeq(v, i, j) : i, j \in 1..Len(v) } : IsWordOf(t, v) }

\* C6 as stated: with a search parameter, the result holds exactly the Books of
\* the filtered set whose title or Author's name has the whole parameter value,
\* case-insensitively, as a substring.
C6_WholeValueIsSubstring ==
  (ListOK /\ req.query.search # None) =>
    BodyIds =
      { b \in DjangoFilterBackend(DOMAIN books, req.query) :
          \/ Contains(Lower(books[b].title), Lower(req.query.search[1]))
          \/ Contains(Lower(authors[books[b].author]), Lower(req.query.search[1])) }

\* C6 as amended: with a search parameter, the result holds exactly the Books of
\* the filtered set for which every word of the parameter value (the value split
\* at spaces and commas) is, case-insensitively, a substring of the title or of
\* the Author's name; different words may be found in different fields.
C6_EveryWordIsSubstring ==
  (ListOK /\ req.query.search # None) =>
    BodyIds =
      { b \in DjangoFilterBackend(DOMAIN books, req.query) :
          \A t \in Words(req.query.search[1]) :
            \/ Contains(Lower(books[b].title), Lower(t))
            \/ Contains(Lower(authors[books[b].author]), Lower(t)) }

\* search "a b" over two Books titled "b": the Book of Author "A" is returned,
\* though "a b" occurs in neither its title nor its Author's name, and the Book
\* of Author "B" is left out
C6_Witness ==
  /\ ListOK
  /\ req.query.search = Some(<<"a", " ", "b">>)
  /\ Cardinality(DjangoFilterBackend(DOMAIN books, req.query)) = 2
  /\ Len(resp.body) = 1
  /\ resp.body[1].title = <<"b">>
  /\ authors[resp.body[1].author] = <<"A">>

\* the fields a request asks to sort by: those of the ordering parameter, or title
RequestedOrdering(q) ==
  IF q.ordering = None \/ q.ordering[1] = <<>> THEN <<Asc("title")>> ELSE q.ordering[1]

RecognizedOrdering(q) ==
  \A k \in 1..Len(RequestedOrdering(q)) :
    RequestedOrdering(q)[k].field \in {"title", "publication_year"}

\* serialized Book x is strictly before y on field f, ascending
ValueLess(f, x, y) ==
  IF f = "title" THEN StrLess(x.title, y.title) ELSE x.publication_year < y.publication_year

ValueEqual(f, x, y) ==
  IF f = "title" THEN x.title = y.title ELSE x.publication_year = y.publication_year

\* x may stand before y: at the first field of ord on which they differ, x comes
\* first in that field's direction
MayPrecede(ord, x, y) ==
  \A k \in 1..Len(ord) :
    (\A m \in 1..(k - 1) : ValueEqual(ord[m].field, x, y))
    => IF ord[k].desc THEN ~ValueLess(ord[k].field, x, y)
       ELSE ~ValueLess(ord[k].field, y, x)

\* C7: a list result is sorted by the fields of the ordering parameter in the
\* order given, ascending for a bare name and descending for a name with a
\* leading "-" (fields title and publication_year), and ascending by title when
\* there is no ordering parameter; the Books in it are those the filter and
\* search stages kept, each once.
C7_SortedAsRequested ==
  (ListOK /\ RecognizedOrdering(req.query)) =>
    /\ \A i, j \in 1..Len(resp.body) :
         i < j => MayPrecede(RequestedOrdering(req.query), resp.body[i], resp.body[j])
    /\ BodyIds = SearchFilter(DjangoFilterBackend(DOMAIN books, req.query), req.query)
    /\ Len(resp.body) = Cardinality(BodyIds)
    /\ \A k \in 1..Len(resp.body) : resp.body[k] = SerializeBook(resp.body[k].id)

\* ordering=-publication_year,title over two Books: the later year comes first,
\* against the order of the identifiers and of the titles
C7_Witness ==
  /\ ListOK
  /\ req.query.ordering = Some(<<Desc("publication_year"), Asc("title")>>)
  /\ Len(resp.body) = 2
  /\ resp.body[1].publication_year > resp.body[2].publication_year
  /\ resp.body[1].id > resp.body[2].id
  /\ StrLess(resp.body[2].title, resp.body[1].title)

\* C8: a list request whose ordering parameter names a field other than title
\* and publication_year is answered 400, never with a result.
C8_UnknownOrderingRejected ==
  ( /\ req.op = "list"
    /\ req.query.ordering # None
    /\ \E k \in 1..Len(req.query.ordering[1]) :
         req.query.ordering[1][k].field \notin {"title", "publication_year"} )
  => resp.status = HTTP_400_BAD_REQUEST

\* C9: in a list result, Books that are equal on every field the result is
\* sorted by stand in ascending order of identifier.
C9_TiesInIdentifierOrder ==
  ListOK =>
    \A i, j \in 1..Len(resp.body) :
      ( /\ i < j
        /\ \A k \in 1..Len(get_ordering(req.query)) :
             ValueEqual(get_ordering(req.query)[k].field, resp.body[i], resp.body[j]) )
      => resp.body[i].id < resp.body[j].id

-----------------------------------------------------------------------------
(* Properties of the Author serializer (Spec) *)

\* the ids of S in ascending order: the order in which the rows were inserted
InsertionOrder(S) ==
  CHOOSE s \in [1..Cardinality(S) -> S] :
    \A i, j \in 1..Cardinality(S) : i < j => s[i] < s[j]

\* C11: serializing an Author yields id, name and books, where books holds
\* exactly the Books whose author is that Author, each in the flat Book form, in
\* insertion order.
C11_NestedBooksInInsertionOrder ==
  req.op = "author" =>
    resp.body =
      <<[id |-> req.id, name |-> authors[req.id],
         books |-> [k \in 1..Cardinality(BooksOf(req.id)) |->
                      SerializeBook(InsertionOrder(BooksOf(req.id))[k])]]>>

-----------------------------------------------------------------------------
(* Order of the filter and search stages (SpecQuery) *)

\* the Books obtained by searching the whole Book set first and filtering after
SearchThenFilter == DjangoFilterBackend(SearchFilter(DOMAIN books, req.query), req.query)

\* the Books that match the search in the whole Book set but belong to another
\* Author than the one the request filters by
SearchedOutsideAuthor ==
  { b \in SearchFilter(DOMAIN books, req.query) : books[b].author # req.query.author[1] }

\* the spec's example of the stages being order-dependent: a search together
\* with an author filter, where the search alone also matches a Book of another
\* Author; there, searching the whole set and then filtering is said to differ
\* from the pipeline's output
C12_SearchFirstDiffers ==
  ( /\ ListOK
    /\ req.query.search # None
    /\ req.query.author # None
    /\ SearchedOutsideAuthor # {} )
  => SearchThenFilter # BodyIds

\* C12: for every store and every list request answered with a result, applying
\* search to the whole Book set and then the filter yields the same set of Books
\* as the pipeline's filter-then-search.
C12_FilterSearchCommute == ListOK => BodyIds = SearchThenFilter

\* search "B" with author=1 over a Book of Author "A" and a Book of Author "B":
\* the search alone matches both, the response holds the Book of Author "A" only
C12_Witness ==
  /\ ListOK
  /\ req.query.search = Some(<<"B">>)
  /\ req.query.author = Some(1)
  /\ SearchedOutsideAuthor # {}
  /\ BodyIds # {}
  /\ BodyIds # SearchFilter(DOMAIN books, req.query)

====
